---------------------------- MODULE Spec2Model ----------------------------
(***************************************************************************)
(* A model of sqlalchemy_i18n/builders.py: the TranslationModelBuilder     *)
(* that synthesizes a translation class for a translatable model, and the  *)
(* HybridPropertyBuilder that installs the locale-aware accessors.         *)
(*                                                                         *)
(* Python values are tagged records, so that truthiness and dictionary     *)
(* lookups are computed as Python computes them.                           *)
(***************************************************************************)
EXTENDS Integers, Sequences, FiniteSets, TLC

(***************************************************************************)
(* Bounds of the model.                                                    *)
(***************************************************************************)
NumModels == 2
MaxColumns == 3
NumLocales == 2

Models == 1..NumModels

(***************************************************************************)
(* Python values.                                                          *)
(***************************************************************************)
PyNone == [t |-> "None"]
PyList(s) == [t |-> "list", v |-> s]
PyStr(s) == [t |-> "str", v |-> s]
PyClass(kind, m) == [t |-> "class", kind |-> kind, model |-> m]
PyManager == [t |-> "TranslationManager"]

\* bool(x) as Python evaluates it in `if x`, `not x` and `x or y`
Truthy(x) ==
    CASE x.t = "None" -> FALSE
      [] x.t = "list" -> Len(x.v) > 0
      [] x.t = "str" -> x.v # ""
      [] OTHER -> TRUE

\* d[k] = v on a dict (a function from keys to values)
DictSet(d, k, v) == [x \in (DOMAIN d) \cup {k} |-> IF x = k THEN v ELSE d[x]]

\* d.update(e)
DictUpdate(d, e) ==
    [x \in (DOMAIN d) \cup (DOMAIN e) |-> IF x \in DOMAIN e THEN e[x] ELSE d[x]]

EmptyDict == [x \in {} |-> PyNone]

\* template % arg, for a template given by its pieces, "%s" being the placeholder
RECURSIVE Percent(_, _)
Percent(template, arg) ==
    IF template = <<>> THEN ""
    ELSE (IF Head(template) = "%s" THEN arg ELSE Head(template))
             \o Percent(Tail(template), arg)

(***************************************************************************)
(* Columns of the mapping layer: sa.Column(name, type, primary_key,        *)
(* unique).                                                                *)
(***************************************************************************)
StringLength == 10

ColumnType(name, length) == [name |-> name, length |-> length]

Column(name, type, pk, unique) ==
    [t |-> "Column", name |-> name, type |-> type,
     primary_key |-> pk, unique |-> unique]

\* the translated columns a model may declare (__translated_columns__)
TranslatedChoices ==
    { <<Column("title", ColumnType("Unicode", 0), FALSE, FALSE)>>,
      <<Column("title", ColumnType("Unicode", 0), FALSE, FALSE),
        Column("content", ColumnType("UnicodeText", 0), FALSE, FALSE)>>,
      <<Column("locale", ColumnType("Unicode", 0), FALSE, FALSE)>>,
      <<Column("id", ColumnType("Unicode", 0), FALSE, FALSE),
        Column("title", ColumnType("Unicode", 0), FALSE, FALSE)>> }

\* the primary keys a model may have (what primary_keys(model) returns)
PrimaryKeyChoices ==
    { <<Column("id", ColumnType("Integer", 0), TRUE, TRUE)>>,
      <<Column("id", ColumnType("Integer", 0), TRUE, FALSE),
        Column("code", ColumnType("Integer", 0), TRUE, TRUE)>> }

\* the options of a new translation manager
DefaultOptions ==
    [locales |-> PyList(<<>>), locale_column_name |-> PyStr("locale"),
     base_classes |-> PyNone, table_name |-> PyList(<<"%s", "_translation">>)]

\* the option dicts a translation manager may hold (manager.options)
ManagerOptions ==
    { DefaultOptions,
      [locales |-> PyList(<<"en", "fr">>), locale_column_name |-> PyStr("locale"),
       base_classes |-> PyList(<<PyClass("custom", 0)>>),
       table_name |-> PyList(<<"%s", "_translation">>)],
      [locales |-> PyList(<<"en", "fr">>), locale_column_name |-> PyStr("id"),
       base_classes |-> PyNone, table_name |-> PyList(<<"%s", "_translation">>)] }

\* the __translatable__ dicts a model class may declare
TranslatableChoices ==
    { EmptyDict,
      [x \in {"locales"} |-> PyList(<<>>)],
      [x \in {"locales"} |-> PyList(<<"en", "fi">>)] }

VARIABLES
    bases,          \* bases[m]: the parent model of m, 0 for a root
    translatable,   \* translatable[m]: id of the dict that is m's own
                    \* __translatable__ attribute, 0 when m only inherits it
    dicts,          \* the dicts the __translatable__ attributes refer to
    options,        \* manager.options
    class_map,      \* the translation class generated for each built model
    raised,         \* the exception that left the configuration pass
    translated_columns,  \* model.__translated_columns__ of the model that
                         \* gets its accessors
    mapper_properties,   \* the names sa.inspect(model) has a property for
    exclude_options,     \* 'exclude_hybrid_properties' of model and manager
    class_attrs,    \* the attributes of the model class
    accessors,      \* what HybridPropertyBuilder.__call__ ended with
    translations,   \* obj.translations: a row of values for each locale
    current_locale, \* the locale obj.current_translation stands for
    default_locale, \* the 'default_locale' option
    last            \* the last call of a generated accessor and its result

schemaVars == <<bases, translatable, dicts, options, class_map, raised>>
accessorVars == <<translated_columns, mapper_properties, exclude_options,
                  class_attrs, accessors>>
instanceVars == <<translations, current_locale, default_locale, last>>
vars == <<schemaVars, accessorVars, instanceVars>>

NoError == [model |-> 0, error |-> "none"]

(***************************************************************************)
(* Attribute and option lookup.                                            *)
(***************************************************************************)
\* the dict that model.__translatable__ evaluates to: the class's own
\* attribute, or the closest ancestor's
RECURSIVE TranslatableOf(_)
TranslatableOf(m) ==
    IF translatable[m] # 0 THEN translatable[m] ELSE TranslatableOf(bases[m])

\* TranslationBuilder.option
option(model, name) ==
    LET d == dicts[TranslatableOf(model.id)]
    IN IF name \in DOMAIN d THEN d[name] ELSE options[name]

\* manager.closest_generated_parent: the translation class of the closest
\* ancestor that has one, None otherwise
RECURSIVE closest_generated_parent(_)
closest_generated_parent(m) ==
    IF bases[m] = 0 THEN PyNone
    ELSE IF bases[m] \in DOMAIN class_map THEN PyClass("translation", bases[m])
    ELSE closest_generated_parent(bases[m])

ModelName(m) == "Model" \o ToString(m)
ModelTableName(m) == "model" \o ToString(m)

(***************************************************************************)
(* TranslationModelBuilder.                                                *)
(***************************************************************************)
table_name(model) ==
    Percent(option(model, "table_name").v, ModelTableName(model.id))

build_reflected_primary_keys(model) ==
    [i \in DOMAIN model.primary_keys |->
        [model.primary_keys[i] EXCEPT !.unique = FALSE]]

build_foreign_key(model) ==
    LET names == [i \in DOMAIN model.primary_keys |-> model.primary_keys[i].name]
    IN [t |-> "ForeignKeyConstraint",
        columns |-> names,
        refcolumns |-> [i \in DOMAIN names |->
                           ModelTableName(model.id) \o "." \o names[i]],
        ondelete |-> "CASCADE"]

build_locale_column(model) ==
    Column(option(model, "locale_column_name").v,
           ColumnType("String", StringLength), TRUE, FALSE)

\* dict([(column.name, column) for column in cols]): the last column of a
\* name is the one kept
DictOfColumns(cols) ==
    [n \in {cols[i].name : i \in DOMAIN cols} |->
        cols[CHOOSE i \in DOMAIN cols :
                /\ cols[i].name = n
                /\ \A j \in DOMAIN cols : cols[j].name = n => j <= i]]

\* columns without the test for a generated parent: the key columns and
\* the locale column are declared for every model
columns_for_every_model(model) ==
    DictOfColumns(build_reflected_primary_keys(model)
                      \o <<build_locale_column(model)>>
                      \o model.translated_columns)

columns(model) ==
    LET own == IF ~Truthy(closest_generated_parent(model.id))
               THEN build_reflected_primary_keys(model)
                        \o <<build_locale_column(model)>>
               ELSE <<>>
    IN DictOfColumns(own \o model.translated_columns)

base_classes(model) ==
    LET parent == closest_generated_parent(model.id)
    IN IF Truthy(parent) THEN <<parent>>
       ELSE IF Truthy(option(model, "base_classes"))
            THEN option(model, "base_classes").v
       ELSE <<PyClass("declarative_base", 0)>>

build_model(model) ==
    LET data0 == IF ~Truthy(closest_generated_parent(model.id))
                 THEN [x \in {"__table_args__", "__tablename__"} |->
                          IF x = "__table_args__"
                          THEN PyList(<<build_foreign_key(model)>>)
                          ELSE PyStr(table_name(model))]
                 ELSE EmptyDict
    IN [name |-> ModelName(model.id) \o "Translation",
        bases |-> base_classes(model),
        data |-> DictUpdate(data0, columns(model)),
        parent_class |-> PyNone]

\* the id of the dict that a copy made while building model m gets
CopyId(m) == NumModels + m

\* copy(self.model.__translatable__) with the reference kept instead: the
\* model's attribute stays the dict it shares
copy_by_reference(m) == TranslatableOf(m)

\* copy(self.model.__translatable__): a new dict with the same items
copy(m) == CopyId(m)

\* the raise of ImproperlyConfigured, which leaves __call__ at once
RaiseImproperlyConfigured(m) ==
    /\ raised' = [model |-> m, error |-> "ImproperlyConfigured"]
    /\ UNCHANGED <<bases, translatable, dicts, options, class_map>>

\* the statements of __call__ after the locales check
BuildAndLink(model) ==
    LET m == model.id
        target == copy(m)
        copied == dicts[TranslatableOf(m)]
        translation_class == build_model(model)
        linked == DictSet(DictSet(copied, "class", PyClass("translation", m)),
                          "manager", PyManager)
    IN /\ translatable' = [translatable EXCEPT ![m] = target]
       /\ dicts' = [d \in (DOMAIN dicts) \cup {target} |->
                       IF d = target THEN linked ELSE dicts[d]]
       /\ class_map' = [k \in (DOMAIN class_map) \cup {m} |->
                           IF k = m
                           THEN [translation_class EXCEPT
                                    !.parent_class = model]
                           ELSE class_map[k]]
       /\ UNCHANGED <<bases, options, raised>>

\* __call__ with the copy assigned to the model before the locales check
TranslationModelBuilder_call_copy_first(m, pk, tcols) ==
    LET model == [id |-> m, primary_keys |-> pk, translated_columns |-> tcols]
    IN /\ raised = NoError
       /\ m \notin DOMAIN class_map
       /\ IF ~Truthy(option(model, "locales"))
          THEN /\ raised' = [model |-> m, error |-> "ImproperlyConfigured"]
               /\ translatable' = [translatable EXCEPT ![m] = copy(m)]
               /\ dicts' = [d \in (DOMAIN dicts) \cup {copy(m)} |->
                               IF d = copy(m) THEN dicts[TranslatableOf(m)]
                               ELSE dicts[d]]
               /\ UNCHANGED <<bases, options, class_map>>
          ELSE BuildAndLink(model)
       /\ UNCHANGED <<accessorVars, instanceVars>>

\* TranslationModelBuilder.__call__ on model m, whose primary key and
\* translated columns are pk and tcols. An exception leaves the
\* configuration pass, so no builder runs after one.
TranslationModelBuilder_call(m, pk, tcols) ==
    LET model == [id |-> m, primary_keys |-> pk, translated_columns |-> tcols]
    IN /\ raised = NoError
       /\ m \notin DOMAIN class_map
       /\ IF ~Truthy(option(model, "locales"))
          THEN RaiseImproperlyConfigured(m)
          ELSE BuildAndLink(model)
       /\ UNCHANGED <<accessorVars, instanceVars>>

(***************************************************************************)
(* HybridPropertyBuilder: the accessors installed on the model class.      *)
(***************************************************************************)
\* the names a translated column or a mapped attribute may have
AttributeNames == {"title", "content", "name"}

NoCollision == [column |-> "", error |-> "none"]

InstrumentedAttribute(name) == [t |-> "InstrumentedAttribute", key |-> name]

\* hybrid_property(fget=getter_factory(attr), fset=setter_factory(attr),
\*                 expr=lambda cls: getattr(cls.__translatable__['class'], attr))
hybrid_property(attr) ==
    [t |-> "hybrid_property", fget |-> attr, fset |-> attr, expr |-> attr]

\* manager.option(model, 'exclude_hybrid_properties'): the model's own
\* setting, else the manager's
exclude_hybrid_properties ==
    IF exclude_options.model.defined
    THEN exclude_options.model.names
    ELSE exclude_options.manager

\* detect_collisions: TRUE when it raises ImproperlyConfigured
detect_collisions(column_name) == column_name \in mapper_properties

\* setattr(self.model, attr, hybrid_property(...))
assign_attr_getter_setters(attrs, attr) ==
    DictSet(attrs, attr, hybrid_property(attr))

\* the loop that goes on with the next column after a collision, and
\* raises the first collision at the end
RECURSIVE call_loop_best_effort(_, _, _)
call_loop_best_effort(i, attrs, err) ==
    IF i > Len(translated_columns) THEN [attrs |-> attrs, raised |-> err]
    ELSE LET key == translated_columns[i].name
         IN IF key \in exclude_hybrid_properties
            THEN call_loop_best_effort(i + 1, attrs, err)
            ELSE IF detect_collisions(key)
            THEN call_loop_best_effort(i + 1, attrs,
                     IF err = NoCollision
                     THEN [column |-> key, error |-> "ImproperlyConfigured"]
                     ELSE err)
            ELSE call_loop_best_effort(i + 1,
                     assign_attr_getter_setters(attrs, key), err)

\* the loop that looks for a collision before it looks at the exclusions
RECURSIVE call_loop_collision_first(_, _, _)
call_loop_collision_first(i, attrs, err) ==
    IF i > Len(translated_columns) THEN [attrs |-> attrs, raised |-> err]
    ELSE LET key == translated_columns[i].name
         IN IF detect_collisions(key)
            THEN [attrs |-> attrs,
                  raised |-> [column |-> key, error |-> "ImproperlyConfigured"]]
            ELSE IF key \in exclude_hybrid_properties
            THEN call_loop_collision_first(i + 1, attrs, err)
            ELSE call_loop_collision_first(i + 1,
                     assign_attr_getter_setters(attrs, key), err)

\* the for loop of HybridPropertyBuilder.__call__ from column i on, given the
\* class attributes so far: the class attributes it leaves and what it raised
RECURSIVE call_loop(_, _, _)
call_loop(i, attrs, err) ==
    IF i > Len(translated_columns) THEN [attrs |-> attrs, raised |-> err]
    ELSE LET key == translated_columns[i].name
         IN IF key \in exclude_hybrid_properties
            THEN call_loop(i + 1, attrs, err)
            ELSE IF detect_collisions(key)
            THEN [attrs |-> attrs,
                  raised |-> [column |-> key, error |-> "ImproperlyConfigured"]]
            ELSE call_loop(i + 1, assign_attr_getter_setters(attrs, key), err)

\* HybridPropertyBuilder.__call__, once for the model
HybridPropertyBuilder_call ==
    /\ accessors.state = "pending"
    /\ LET end == call_loop(1, class_attrs, NoCollision)
       IN /\ class_attrs' = end.attrs
          /\ accessors' = [state |-> "done", raised |-> end.raised]
    /\ UNCHANGED <<translated_columns, mapper_properties, exclude_options>>
    /\ UNCHANGED <<schemaVars, instanceVars>>

(***************************************************************************)
(* The generated accessors at work on one object.                          *)
(***************************************************************************)
LocaleNames == <<"en", "fr", "de", "fi", "sv">>
Locales == {LocaleNames[i] : i \in 1..NumLocales}

\* the translated attributes of the object
TranslatedAttributes == {"title", "content"}

\* the values an attribute of a translation row may hold
Values == {PyNone, PyStr(""), PyStr("text"), PyStr("texte")}

\* a default locale given as a function of the object, which returns
\* `result` for the object at hand
PyFunction(result) == [t |-> "function", result |-> result]

\* callable(x)
callable(x) == x.t = "function"

\* the locale of the row obj.current_translation evaluates to
current_translation == current_locale

\* self.manager.option(obj, 'default_locale')
manager_option_default_locale == default_locale

\* default_locale(obj)
CallWithObject(f) == f.result

\* the locale that attribute_getter falls back to
ResolvedDefaultLocale ==
    LET d == manager_option_default_locale
    IN IF callable(d) THEN CallWithObject(d) ELSE d.v

\* attribute_getter that tries the default locale's row first
attribute_getter_default_first(name) ==
    LET value == translations[ResolvedDefaultLocale][name]
    IN IF Truthy(value) THEN value
       ELSE translations[current_translation][name]

\* attribute_getter that falls back only when the value is None
attribute_getter_none_only(name) ==
    LET value == translations[current_translation][name]
    IN IF value # PyNone THEN value
       ELSE translations[ResolvedDefaultLocale][name]

\* the function getter_factory(name) returns, called on the object
attribute_getter(name) ==
    LET value == translations[current_translation][name]
    IN IF Truthy(value) THEN value
       ELSE LET option_value == manager_option_default_locale
                locale == IF callable(option_value)
                          THEN CallWithObject(option_value)
                          ELSE option_value.v
            IN translations[locale][name]

\* a setter that writes the value to the default locale's row as well
attribute_setter_both_rows(name, value) ==
    [translations EXCEPT ![current_translation][name] = value,
                         ![ResolvedDefaultLocale][name] = value]

\* the function setter_factory(name) returns, called on the object: the
\* translations after setattr(obj.current_translation, name, value)
attribute_setter(name, value) ==
    [translations EXCEPT ![current_translation][name] = value]

\* obj.<name> read through the hybrid property
GetAttribute(name) ==
    /\ last' = [op |-> "get", name |-> name, value |-> attribute_getter(name)]
    /\ UNCHANGED <<translations, current_locale, default_locale>>
    /\ UNCHANGED <<schemaVars, accessorVars>>

\* obj.<name> = value through the hybrid property
SetAttribute(name, value) ==
    /\ translations' = attribute_setter(name, value)
    /\ last' = [op |-> "set", name |-> name, value |-> value]
    /\ UNCHANGED <<current_locale, default_locale>>
    /\ UNCHANGED <<schemaVars, accessorVars>>

\* the manager makes another locale the current one
SelectLocale(locale) ==
    /\ locale # current_locale
    /\ current_locale' = locale
    /\ last' = [op |-> "locale", name |-> "", value |-> PyNone]
    /\ UNCHANGED <<translations, default_locale>>
    /\ UNCHANGED <<schemaVars, accessorVars>>

(***************************************************************************)
(* Initial states and specifications. Each specification runs one part of  *)
(* the module and leaves the variables of the other parts alone.           *)
(***************************************************************************)
IdleSchema ==
    /\ bases = [m \in Models |-> 0]
    /\ translatable = [m \in Models |-> m]
    /\ dicts = [m \in Models |-> EmptyDict]
    /\ options = DefaultOptions
    /\ class_map = [k \in {} |-> 0]
    /\ raised = NoError

IdleAccessors ==
    /\ translated_columns = <<>>
    /\ mapper_properties = {}
    /\ exclude_options = [model |-> [defined |-> FALSE, names |-> {}],
                          manager |-> {}]
    /\ class_attrs = EmptyDict
    /\ accessors = [state |-> "pending", raised |-> NoCollision]

IdleInstance ==
    /\ translations = [l \in Locales |-> [a \in TranslatedAttributes |-> PyNone]]
    /\ current_locale = LocaleNames[1]
    /\ default_locale = PyStr(LocaleNames[1])
    /\ last = [op |-> "none", name |-> "", value |-> PyNone]

\* the class hierarchies and the sharing of __translatable__ dicts that the
\* class statements can set up before any builder runs
InitSchema ==
    /\ bases \in [Models -> 0..NumModels]
    /\ \A m \in Models : bases[m] < m
    /\ translatable \in [Models -> 0..NumModels]
    /\ \A m \in Models :
          \/ translatable[m] = m
          \/ translatable[m] = 0 /\ bases[m] # 0
          \/ /\ translatable[m] \in 1..(m - 1)
             /\ translatable[translatable[m]] = translatable[m]
    /\ \E used \in SUBSET Models :
          /\ used = {translatable[m] : m \in Models} \ {0}
          /\ dicts \in [used -> TranslatableChoices]
    /\ options \in ManagerOptions
    /\ class_map = [k \in {} |-> 0]
    /\ raised = NoError
    /\ IdleAccessors
    /\ IdleInstance

NextSchema ==
    \E m \in Models, pk \in PrimaryKeyChoices, tcols \in TranslatedChoices :
        TranslationModelBuilder_call(m, pk, tcols)

SpecSchema == InitSchema /\ [][NextSchema]_vars

\* the models HybridPropertyBuilder may be given: translated columns, mapped
\* attributes and exclusion lists
InitAccessors ==
    /\ \E n \in 0..MaxColumns :
          \E names \in [1..n -> AttributeNames] :
             translated_columns =
                [i \in 1..n |-> Column(names[i], ColumnType("Unicode", 0),
                                       FALSE, FALSE)]
    /\ mapper_properties \in SUBSET AttributeNames
    /\ \E m \in [defined : BOOLEAN, names : SUBSET AttributeNames],
          g \in {{}, {"content"}} :
          /\ m.defined \/ m.names = {}
          /\ exclude_options = [model |-> m, manager |-> g]
    /\ class_attrs = [n \in mapper_properties |-> InstrumentedAttribute(n)]
    /\ accessors = [state |-> "pending", raised |-> NoCollision]
    /\ IdleSchema
    /\ IdleInstance

NextAccessors == HybridPropertyBuilder_call

SpecAccessors == InitAccessors /\ [][NextAccessors]_vars

\* a new object: a row without values for every locale
InitInstance ==
    /\ translations = [l \in Locales |-> [a \in TranslatedAttributes |-> PyNone]]
    /\ current_locale \in Locales
    /\ default_locale \in {PyStr(l) : l \in Locales}
                              \cup {PyFunction(l) : l \in Locales}
    /\ last = [op |-> "none", name |-> "", value |-> PyNone]
    /\ IdleSchema
    /\ IdleAccessors

NextInstance ==
    \/ \E name \in TranslatedAttributes : GetAttribute(name)
    \/ \E name \in TranslatedAttributes, value \in Values :
          SetAttribute(name, value)
    \/ \E locale \in Locales : SelectLocale(locale)

SpecInstance == InitInstance /\ [][NextInstance]_vars

(***************************************************************************)
(* Properties of TranslationModelBuilder.                                  *)
(***************************************************************************)
\* the names of the primary-key columns a translation class declares
PrimaryKeyOf(cls) ==
    {n \in DOMAIN cls.data :
        cls.data[n].t = "Column" /\ cls.data[n].primary_key}

\* the primary key of the table a translation class is mapped to: the
\* primary-key columns declared along its chain of translation base classes,
\* up to the class that declares the table
RECURSIVE TablePrimaryKey(_, _)
TablePrimaryKey(cm, m) ==
    LET cls == cm[m]
    IN IF "__tablename__" \in DOMAIN cls.data
          \/ cls.bases[1].kind # "translation"
       THEN PrimaryKeyOf(cls)
       ELSE PrimaryKeyOf(cls) \cup TablePrimaryKey(cm, cls.bases[1].model)

\* the model declares a non-empty locale set in its own configuration
ModelLevelLocales(m) ==
    LET d == dicts[TranslatableOf(m)]
    IN "locales" \in DOMAIN d /\ Truthy(d["locales"])

\* the manager defines a non-empty locale set
ManagerLevelLocales == Truthy(options["locales"])

\* the step built the translation class of model m
Built(m) == m \in DOMAIN class_map' /\ m \notin DOMAIN class_map

\* the step is a builder call on model m that raised
Failed(m) == raised = NoError /\ raised'.model = m

\* C1: building a model that has no already-translated ancestor gives a
\* translation class whose primary key has |parent primary key| + 1 columns,
\* whatever the translated-column names and the locale column name are.
C1_PrimaryKeySize ==
    \A m \in DOMAIN class_map :
        LET cls == class_map[m]
        IN ( /\ cls.bases[1].kind # "translation"
             /\ Len(cls.parent_class.translated_columns) >= 1 )
           => Cardinality(PrimaryKeyOf(cls))
                 = Len(cls.parent_class.primary_keys) + 1

\* C2: with no locales at the model level and none at the manager level,
\* __call__ raises ImproperlyConfigured and the model keeps the very dict it
\* had, with no class and no manager entry added and no class generated.
C2_NoLocalesRaisesAndLeavesModel ==
    [][\A m \in Models :
          ( /\ ~ModelLevelLocales(m)
            /\ ~ManagerLevelLocales
            /\ Built(m) \/ Failed(m) )
          => /\ raised' = [model |-> m, error |-> "ImproperlyConfigured"]
             /\ translatable' = translatable
             /\ dicts' = dicts
             /\ class_map' = class_map
      ]_vars

C2_Witness ==
    /\ raised.error = "ImproperlyConfigured"
    /\ ~ModelLevelLocales(raised.model)
    /\ ~ManagerLevelLocales

\* C3: building a model below an already generated translation class makes
\* no second table: the new class declares no table name, no foreign key, no
\* primary-key column and no locale column, its only base is the closest
\* generated ancestor's translation class, its data are exactly the model's
\* translated columns, and the table's primary key stays what it was.
C3_SubclassReusesTable ==
    [][\A m \in Models :
          (Built(m) /\ Truthy(closest_generated_parent(m)))
          => LET parent == closest_generated_parent(m)
                 cls == class_map'[m]
                 tcols == cls.parent_class.translated_columns
             IN /\ cls.parent_class.id = m
                /\ "__tablename__" \notin DOMAIN cls.data
                /\ "__table_args__" \notin DOMAIN cls.data
                /\ PrimaryKeyOf(cls) = {}
                /\ \A n \in DOMAIN cls.data :
                      cls.data[n].type # ColumnType("String", StringLength)
                /\ cls.bases = <<parent>>
                /\ DOMAIN cls.data = {tcols[i].name : i \in DOMAIN tcols}
                /\ \A n \in DOMAIN cls.data :
                      \E i \in DOMAIN tcols : cls.data[n] = tcols[i]
                /\ \A k \in DOMAIN class_map : class_map'[k] = class_map[k]
                /\ TablePrimaryKey(class_map', m)
                      = TablePrimaryKey(class_map, parent.model)
      ]_vars

C3_Witness ==
    \E m \in DOMAIN class_map :
        /\ class_map[m].bases[1].kind = "translation"
        /\ class_map[m].bases[1].model \in DOMAIN class_map
        /\ Cardinality(DOMAIN class_map[m].data) >= 1

C10_NoErrorWhenAnyLevelHasLocales ==
    \A m \in Models :
        (raised = [model |-> m, error |-> "ImproperlyConfigured"])
            => ~(ModelLevelLocales(m) \/ ManagerLevelLocales)


(***************************************************************************)
(* Properties of HybridPropertyBuilder.                                    *)
(***************************************************************************)
ColumnKey(i) == translated_columns[i].name

IsHybrid(n) == n \in DOMAIN class_attrs /\ class_attrs[n].t = "hybrid_property"

\* column i is not excluded and its name is a mapped attribute of the model
Collides(i) ==
    /\ ColumnKey(i) \notin exclude_hybrid_properties
    /\ ColumnKey(i) \in mapper_properties

\* the first column in iteration order that collides
IsFirstCollision(i) ==
    /\ i \in DOMAIN translated_columns
    /\ Collides(i)
    /\ \A j \in 1..(i - 1) : ~Collides(j)

\* C6: at the first non-excluded column whose name is a mapped attribute,
\* __call__ raises ImproperlyConfigured for that column and installs no
\* accessor for it; the accessors of the columns before it stay, and no
\* column after it gets one.
C6_CollisionFailsFast ==
    \A i \in DOMAIN translated_columns :
        (accessors.state = "done" /\ IsFirstCollision(i))
        => /\ accessors.raised
                 = [column |-> ColumnKey(i), error |-> "ImproperlyConfigured"]
           /\ class_attrs[ColumnKey(i)] = InstrumentedAttribute(ColumnKey(i))
           /\ \A j \in 1..(i - 1) :
                 ColumnKey(j) \notin exclude_hybrid_properties
                    => IsHybrid(ColumnKey(j))
           /\ \A n \in AttributeNames :
                 IsHybrid(n) => \E j \in 1..(i - 1) : ColumnKey(j) = n

\* a collision in the middle: an accessor installed before it, and a column
\* after it that is neither excluded nor colliding
C6_Witness ==
    \E i \in DOMAIN translated_columns :
        /\ accessors.state = "done"
        /\ IsFirstCollision(i)
        /\ \E j \in 1..(i - 1) : IsHybrid(ColumnKey(j))
        /\ \E k \in (i + 1)..Len(translated_columns) :
              /\ ~Collides(k)
              /\ ColumnKey(k) \notin exclude_hybrid_properties
              /\ ~IsHybrid(ColumnKey(k))

\* C7: a column named in exclude_hybrid_properties gets no accessor and no
\* collision error, also when its name is a mapped attribute.
C7_ExcludedNeverInstalled ==
    \A n \in exclude_hybrid_properties :
        /\ ~IsHybrid(n)
        /\ accessors.raised.column # n
        /\ n \in mapper_properties
              => class_attrs[n] = InstrumentedAttribute(n)

\* an excluded column that is a mapped attribute was passed over, and a
\* column after it got its accessor
C7_Witness ==
    \E i \in DOMAIN translated_columns :
        /\ accessors.state = "done"
        /\ ColumnKey(i) \in exclude_hybrid_properties
        /\ ColumnKey(i) \in mapper_properties
        /\ accessors.raised = NoCollision
        /\ \E k \in (i + 1)..Len(translated_columns) : IsHybrid(ColumnKey(k))

(***************************************************************************)
(* Properties of the generated accessors.                                  *)
(***************************************************************************)
\* the default locale: the option itself, or what it returns for the object
DefaultLocaleOf ==
    IF default_locale.t = "function" THEN default_locale.result
    ELSE default_locale.v

\* a step that reads `name` right after a write of `name`, the current
\* locale being the same
ReadAfterWrite ==
    /\ last.op = "set"
    /\ last'.op = "get"
    /\ last'.name = last.name
    /\ current_locale' = current_locale

\* C4 as stated: a read right after a write under the same locale returns
\* the value written, whatever the value.
C4_RoundTripEveryValue ==
    [][ReadAfterWrite => last'.value = last.value]_vars

\* C4, amended: the read returns the value written when that value is
\* truthy, and the default locale's value of the attribute when it is not.
C4_RoundTripTruthy ==
    [][ReadAfterWrite =>
          last'.value = IF last.value \in {PyNone, PyStr("")}
                        THEN translations[DefaultLocaleOf][last.name]
                        ELSE last.value]_vars

\* a truthy value was written and read back under a locale that is not the
\* default one
C4_Witness ==
    /\ last.op = "get"
    /\ last.value = PyStr("text")
    /\ translations[current_locale][last.name] = PyStr("text")
    /\ current_locale # DefaultLocaleOf
    /\ translations[DefaultLocaleOf][last.name] # PyStr("text")

\* C5: a read returns the current row's value when it is truthy, else the
\* value the row of the default locale holds for the same attribute, be the
\* default locale a value or a function of the object; nothing else is tried.
C5_GetterFallback ==
    last.op = "get" =>
        LET value == translations[current_locale][last.name]
        IN last.value = IF value \in {PyNone, PyStr("")}
                        THEN translations[DefaultLocaleOf][last.name]
                        ELSE value

\* a read that fell back to the row of a default locale given by a function
C5_Witness ==
    /\ last.op = "get"
    /\ default_locale.t = "function"
    /\ current_locale # DefaultLocaleOf
    /\ translations[current_locale][last.name] = PyStr("")
    /\ last.value = PyStr("text")

\* C9: a write changes the attribute of the current row to the value and
\* nothing else: no other row, no other attribute of the current row.
C9_SetterFrame ==
    [][(last'.op = "set" /\ last' # last) =>
          /\ translations'[current_locale][last'.name] = last'.value
          /\ \A l \in Locales, a \in TranslatedAttributes :
                (l # current_locale \/ a # last'.name)
                   => translations'[l][a] = translations[l][a]]_vars

\* a write under a locale that is not the default one, the default row
\* holding another value for the attribute
C9_Witness ==
    /\ last.op = "set"
    /\ current_locale # DefaultLocaleOf
    /\ translations[current_locale][last.name] = PyStr("text")
    /\ translations[DefaultLocaleOf][last.name] = PyStr("")
    /\ \E a \in TranslatedAttributes :
          a # last.name /\ translations[current_locale][a] = PyStr("text")

=============================================================================
